---- MODULE Spec2Model ----
(***************************************************************************)
(* Model of the painting-contractor backend (src/main.py): four document   *)
(* collections (sites, materials, labour, logs) and the request handlers   *)
(* that act on them.  A handler that awaits the store more than once is    *)
(* split at its awaits, because other requests run between them.           *)
(*                                                                         *)
(* Fields that every handler copies verbatim and never computes with       *)
(* (Site name/client/address/startDate/status, Material and Labour name,   *)
(* DailyLog date and notes) are folded into one value or left out.         *)
(***************************************************************************)
EXTENDS Integers, Sequences, FiniteSets, TLC

\* ---------------------------------------------------------------- bounds
MaxProcs == 2        \* create_log requests over a run (they may overlap)
MaxDocs == 1         \* documents ever inserted into each of sites/materials/labour
MaxLines == 2        \* material lines of one DailyLog

Procs == 1..MaxProcs
FieldVals == {"a", "b"}    \* the Site body, all mutable fields taken together
QtyVals == {2}             \* Material.quantity at creation
CostVals == {2}            \* Material.costPerUnit
RateVals == {5}            \* Labour.ratePerDay
LineQtys == {1, 3}         \* quantity of a material line
CountVals == {1}           \* count of a labour line
LabLens == {0, 1}          \* number of labour lines of one DailyLog

\* ------------------------------------------------------------ identifiers
\* A store-assigned ObjectId: the collection that issued it and a serial.
\* Ids are unique across collections and never reissued.
Oid(c, n) == <<c, n>>
\* A well-formed ObjectId that the store never issues.
NoOid == Oid("none", 0)

\* Strings at the API boundary.  "hex" is the lowercase 24-digit rendering
\* str() gives, "HEX" the same digits in upper case (ObjectId() accepts
\* both), "bad" any string that is not 24 hex digits.
Hex(o) == [form |-> "hex", oid |-> o]
UpperHex(o) == [form |-> "HEX", oid |-> o]
BadStr == [form |-> "bad", oid |-> NoOid]

\* bson.ObjectId(s): raises InvalidId (ok = FALSE) unless s is 24 hex digits.
ObjectId(s) == [ok |-> s.form # "bad", oid |-> s.oid]
\* str(oid)
str(o) == Hex(o)

VARIABLES
    sites_collection,      \* oid -> [fields]
    materials_collection,  \* oid -> [quantity, costPerUnit]
    labour_collection,     \* oid -> [ratePerDay]
    logs_collection,       \* oid -> [siteId, materials, labour, totalCost]
    issued,                \* collection name -> number of ids issued so far
    req,                   \* create_log requests, one per process
    upd,                   \* the update_site request in flight
    rpt,                   \* the get_site_report request in flight
    resp,                  \* response of the last update/delete handler
    hist                   \* history: mat0, every Material as it was inserted;
                           \* failed, whether a create_log request has raised

vars == <<sites_collection, materials_collection, labour_collection,
          logs_collection, issued, req, upd, rpt, resp, hist>>

store == <<sites_collection, materials_collection, labour_collection,
           logs_collection>>

\* ------------------------------------------------------ store operations
EmptyColl == [o \in {} |-> 0]

\* result.inserted_id of an insert_one: an id the store has not issued before
InsertedIdReused(c, n) == Oid(c, 1)
InsertedId(c, n) == Oid(c, n + 1)

\* collection.insert_one(doc) with that id
InsertOne(coll, o, doc) == [x \in DOMAIN coll \cup {o} |-> IF x = o THEN doc ELSE coll[x]]

\* collection.delete_one({"_id": o})
DeleteOne(coll, o) == [x \in DOMAIN coll \ {o} |-> coll[x]]

\* deleted_count of that delete_one
DeletedCount(coll, o) == IF o \in DOMAIN coll THEN 1 ELSE 0

\* collection.find_one({"_id": o}) is coll[o] when Found, None otherwise
Found(coll, o) == o \in DOMAIN coll

\* collection.update_one({"_id": o}, {"$set": doc}): every field is replaced
UpdateOneSet(coll, o, doc) == IF o \in DOMAIN coll THEN [coll EXCEPT ![o] = doc] ELSE coll

\* modified_count of that update_one: the number of documents the update
\* changed; a matched document already equal to doc is not counted
ModifiedCount(coll, o, doc) == IF o \in DOMAIN coll /\ coll[o] # doc THEN 1 ELSE 0

\* variants of the decrement below: $set in place of $inc, a write of the
\* value read earlier less n, and a decrement only while stock suffices
UpdateOneSetQuantity(coll, o, n, seen) ==
    IF o \in DOMAIN coll THEN [coll EXCEPT ![o].quantity = -n] ELSE coll
UpdateOneFromSeen(coll, o, n, seen) ==
    IF o \in DOMAIN coll THEN [coll EXCEPT ![o].quantity = seen.quantity - n] ELSE coll
UpdateOneIncIfEnough(coll, o, n, seen) ==
    IF o \in DOMAIN coll /\ coll[o].quantity >= n
    THEN [coll EXCEPT ![o].quantity = @ - n] ELSE coll

\* collection.update_one({"_id": o}, {"$inc": {"quantity": -n}}): one atomic
\* store operation on the stored value; seen is the document an earlier
\* find_one returned, which the update does not use
UpdateOneInc(coll, o, n, seen) ==
    IF o \in DOMAIN coll THEN [coll EXCEPT ![o].quantity = @ - n] ELSE coll

\* the documents of a collection in the store's natural (insertion) order
RECURSIVE Ordered(_, _, _)
Ordered(coll, c, n) ==
    IF n = 0 THEN <<>>
    ELSE Ordered(coll, c, n - 1) \o
         (IF Oid(c, n) \in DOMAIN coll THEN <<Oid(c, n)>> ELSE <<>>)

\* ------------------------------------------------------------ inputs
Issued(c) == {Oid(c, n) : n \in 1..issued[c]}
\* id strings a client can send for a collection: ids it was given (either
\* letter case), a well-formed id of no record, a malformed string
IdInputs(c) == {Hex(o) : o \in Issued(c)} \cup {UpperHex(o) : o \in Issued(c)}
               \cup {Hex(NoOid), BadStr}

Idle == [pc |-> "idle"]
NoMaterial == [quantity |-> 0, costPerUnit |-> 0]
NoIds == [c \in {"sites", "materials", "labour", "logs"} |-> 0]
\* a create_log request: pc, the body read so far (log), the locals
\* total_cost, seen (the material find_one returned) and logId
\* (result.inserted_id), err (the exception raised), and history: start
\* and startLab (the materials and labour collections when it arrived), cset and dset (the material lines that added
\* cost / whose decrement reached a stored Material), touched (Materials
\* another request decremented meanwhile)
Request(pc) ==
    [pc |-> pc,
     log |-> [siteId |-> Hex(NoOid), materials |-> <<>>, labour |-> <<>>],
     total_cost |-> 0,
     seen |-> NoMaterial,
     logId |-> NoOid,
     err |-> "",
     start |-> EmptyColl,
     startLab |-> EmptyColl,
     cset |-> {}, dset |-> {}, touched |-> {}]
\* an HTTP response: the status and what the body carries
NoResp == [status |-> 0, body |-> ""]
Response(status, body) == [status |-> status, body |-> body]

\* ------------------------------------------------------------ helpers
\* site_helper(site): the fields with the id rendered by str()
site_helper(o, site) == [_id |-> str(o), fields |-> site.fields]

\* log_helper(log); every stored log has a totalCost, so log.get's default is unused
log_helper(o, log) ==
    [_id |-> str(o), siteId |-> log.siteId, materials |-> log.materials,
     labour |-> log.labour, totalCost |-> log.totalCost]

\* no step runs between a handler's last await and its return: while a
\* response is being returned nothing else moves
Returning ==
    \/ resp # NoResp
    \/ \E p \in Procs : req[p].pc \in {"done", "failed"}
    \/ rpt.pc = "done"

\* ------------------------------------------------------------ Sites
\* POST /api/sites
create_site(f) ==
    /\ ~Returning
    /\ issued["sites"] < MaxDocs
    /\ LET o == InsertedId("sites", issued["sites"]) IN
       /\ sites_collection' = InsertOne(sites_collection, o, [fields |-> f])
       /\ issued' = [issued EXCEPT !["sites"] = @ + 1]
       /\ resp' = Response(200, f)
    /\ UNCHANGED <<materials_collection, labour_collection, logs_collection,
                   req, upd, rpt, hist>>

\* PUT /api/sites/{id}, up to the await of update_one and the 404 test
update_site_write(id, f) ==
    /\ ~Returning
    /\ upd.pc = "idle"
    /\ LET parsed == ObjectId(id)
           o == parsed.oid
           doc == [fields |-> f]
           matched == parsed.ok /\ Found(sites_collection, o)
       IN
       IF ~parsed.ok
       THEN /\ resp' = Response(500, "InvalidId")
            /\ UNCHANGED <<sites_collection, upd>>
       ELSE /\ sites_collection' = UpdateOneSet(sites_collection, o, doc)
            /\ IF ModifiedCount(sites_collection, o, doc) = 0
               THEN /\ resp' = Response(404, "Site not found")
                    /\ upd' = upd
               ELSE /\ upd' = [pc |-> "find", id |-> id, fields |-> f]
                    /\ resp' = resp
    /\ UNCHANGED <<materials_collection, labour_collection, logs_collection,
                   issued, req, rpt, hist>>

\* PUT /api/sites/{id}, from the await of find_one to the response;
\* site_helper(None) raises TypeError when the site is gone by then
update_site_read ==
    /\ ~Returning
    /\ upd.pc = "find"
    /\ LET o == ObjectId(upd.id).oid IN
       resp' = IF Found(sites_collection, o)
               THEN Response(200, site_helper(o, sites_collection[o]).fields)
               ELSE Response(500, "TypeError")
    /\ upd' = Idle
    /\ UNCHANGED <<store, issued, req, rpt, hist>>

\* DELETE /api/sites/{id}
delete_site(id) ==
    /\ ~Returning
    /\ LET parsed == ObjectId(id)
           o == parsed.oid
       IN
       IF ~parsed.ok
       THEN /\ resp' = Response(500, "InvalidId")
            /\ sites_collection' = sites_collection
       ELSE /\ sites_collection' = DeleteOne(sites_collection, o)
            /\ resp' = IF DeletedCount(sites_collection, o) = 0
                       THEN Response(404, "Site not found")
                       ELSE Response(200, "Site deleted")
    /\ UNCHANGED <<materials_collection, labour_collection, logs_collection,
                   issued, req, upd, rpt, hist>>

\* ------------------------------------------------------------ Materials
\* POST /api/materials
create_material(q, c) ==
    /\ ~Returning
    /\ issued["materials"] < MaxDocs
    /\ LET o == InsertedId("materials", issued["materials"])
           doc == [quantity |-> q, costPerUnit |-> c]
       IN
       /\ materials_collection' = InsertOne(materials_collection, o, doc)
       /\ hist' = [hist EXCEPT !.mat0 = InsertOne(@, o, doc)]
       /\ issued' = [issued EXCEPT !["materials"] = @ + 1]
       /\ resp' = Response(200, "created")
    /\ UNCHANGED <<sites_collection, labour_collection, logs_collection,
                   req, upd, rpt>>

\* DELETE /api/materials/{id}
delete_material(id) ==
    /\ ~Returning
    /\ LET parsed == ObjectId(id)
           o == parsed.oid
       IN
       IF ~parsed.ok
       THEN /\ resp' = Response(500, "InvalidId")
            /\ materials_collection' = materials_collection
       ELSE /\ materials_collection' = DeleteOne(materials_collection, o)
            /\ resp' = IF DeletedCount(materials_collection, o) = 0
                       THEN Response(404, "Material not found")
                       ELSE Response(200, "Material deleted")
    /\ UNCHANGED <<sites_collection, labour_collection, logs_collection,
                   issued, req, upd, rpt, hist>>

\* ------------------------------------------------------------ Labour
\* POST /api/labour
create_labour(r) ==
    /\ ~Returning
    /\ issued["labour"] < MaxDocs
    /\ LET o == InsertedId("labour", issued["labour"]) IN
       /\ labour_collection' = InsertOne(labour_collection, o, [ratePerDay |-> r])
       /\ issued' = [issued EXCEPT !["labour"] = @ + 1]
       /\ resp' = Response(200, "created")
    /\ UNCHANGED <<sites_collection, materials_collection, logs_collection,
                   req, upd, rpt, hist>>

\* DELETE /api/labour/{id}
delete_labour(id) ==
    /\ ~Returning
    /\ LET parsed == ObjectId(id)
           o == parsed.oid
       IN
       IF ~parsed.ok
       THEN /\ resp' = Response(500, "InvalidId")
            /\ labour_collection' = labour_collection
       ELSE /\ labour_collection' = DeleteOne(labour_collection, o)
            /\ resp' = IF DeletedCount(labour_collection, o) = 0
                       THEN Response(404, "Labour not found")
                       ELSE Response(200, "Labour deleted")
    /\ UNCHANGED <<sites_collection, materials_collection, logs_collection,
                   issued, req, upd, rpt, hist>>

\* ------------------------------------------------------------ Daily logs
\* What the sender of a request can name: ids of records it can list when
\* the request arrives (an ObjectId cannot be named before the store issues
\* it, and the id of a record deleted earlier acts like any id of no
\* record), in either letter case, a well-formed id of no record, and a
\* malformed string.
MatLine(id, n) == [materialId |-> id, quantity |-> n]
LabLine(id, n) == [labourId |-> id, count |-> n]
MatLineInputs(p) ==
    {MatLine(Hex(o), n) : o \in DOMAIN req[p].start, n \in LineQtys}
    \cup {MatLine(UpperHex(o), 1) : o \in DOMAIN req[p].start}
    \cup {MatLine(Hex(NoOid), 1), MatLine(BadStr, 1)}
LabLineInputs(p) ==
    {LabLine(Hex(o), n) : o \in DOMAIN req[p].startLab, n \in CountVals}
    \cup {LabLine(Hex(NoOid), 1)}
\* fewer of the same, for runs where every handler takes part
FewMatLineInputs(p) ==
    {MatLine(Hex(o), 3) : o \in DOMAIN req[p].start}
    \cup {MatLine(Hex(NoOid), 1), MatLine(BadStr, 1)}
FewLabLineInputs(p) ==
    IF req[p].startLab = EmptyColl THEN {LabLine(Hex(NoOid), 1)}
    ELSE {LabLine(Hex(o), n) : o \in DOMAIN req[p].startLab, n \in CountVals}
SiteIdInputs ==
    {Hex(o) : o \in DOMAIN sites_collection}
    \cup {UpperHex(o) : o \in DOMAIN sites_collection} \cup {Hex(NoOid)}

\* material["costPerUnit"] * mat["quantity"]
MaterialCost(material, mat) == material.costPerUnit * mat.quantity

\* worker["ratePerDay"] * lab["count"]
LabourCost(worker, lab) == worker.ratePerDay * lab.count

\* the quantity of the material lines of r whose decrement reached Material o
RECURSIVE AppliedBy(_, _, _)
AppliedBy(r, o, k) ==
    IF k = 0 THEN 0
    ELSE AppliedBy(r, o, k - 1) +
         (IF k \in r.dset /\ ObjectId(r.log.materials[k].materialId).oid = o
          THEN r.log.materials[k].quantity ELSE 0)

\* a variant of Raise below that gives back what the request had taken
RaiseAndRestore(p, r, err) ==
    /\ req' = [req EXCEPT ![p] = [r EXCEPT !.pc = "failed", !.err = err]]
    /\ materials_collection' =
          [o \in DOMAIN materials_collection |->
             [materials_collection[o] EXCEPT
                !.quantity = @ + AppliedBy(r, o, Len(r.log.materials))]]
    /\ hist' = [hist EXCEPT !.failed = TRUE]

\* an exception leaves create_log: the handler has no except clause, so
\* nothing it wrote is undone and the caller gets a 500
Raise(p, r, err) ==
    /\ req' = [req EXCEPT ![p] = [r EXCEPT !.pc = "failed", !.err = err]]
    /\ materials_collection' = materials_collection
    /\ hist' = [hist EXCEPT !.failed = TRUE]

\* POST /api/logs arrives: log_dict = log.dict(); total_cost = 0.
\* The body is fixed now; the model reveals each line when the loop
\* reaches it, since no earlier step reads it.
create_log_begin(p, siteId) ==
    /\ ~Returning
    /\ req[p].pc = "idle"
    /\ \A q \in Procs : q < p => req[q].pc # "idle"
    /\ req' = [req EXCEPT ![p] =
                [Request("mat") EXCEPT !.log.siteId = siteId,
                                            !.start = materials_collection,
                                            !.startLab = labour_collection]]
    /\ UNCHANGED <<store, issued, upd, rpt, resp, hist>>

\* for mat in log.materials: material = await find_one(ObjectId(materialId));
\* if material: total_cost += costPerUnit * quantity
create_log_mat_find(p, mat) ==
    /\ ~Returning
    /\ req[p].pc = "mat"
    /\ Len(req[p].log.materials) < MaxLines
    /\ LET r == [req[p] EXCEPT !.log.materials = Append(@, mat)]
           i == Len(r.log.materials)
           parsed == ObjectId(mat.materialId)
           o == parsed.oid
       IN
       IF ~parsed.ok
       THEN Raise(p, r, "InvalidId")
       ELSE /\ UNCHANGED <<materials_collection, hist>>
            /\ IF Found(materials_collection, o)
               THEN req' = [req EXCEPT ![p] =
                              [r EXCEPT !.pc = "mat_inc",
                                        !.seen = materials_collection[o],
                                        !.total_cost = @ + MaterialCost(materials_collection[o], mat),
                                        !.cset = @ \cup {i}]]
               ELSE req' = [req EXCEPT ![p] = r]
    /\ UNCHANGED <<sites_collection, labour_collection, logs_collection,
                   issued, upd, rpt, resp>>

\* await update_one({"_id": ObjectId(materialId)}, {"$inc": {"quantity": -quantity}})
create_log_mat_inc(p) ==
    /\ ~Returning
    /\ req[p].pc = "mat_inc"
    /\ LET i == Len(req[p].log.materials)
           mat == req[p].log.materials[i]
           o == ObjectId(mat.materialId).oid
           hit == Found(materials_collection, o)
       IN
       /\ materials_collection' = UpdateOneInc(materials_collection, o, mat.quantity, req[p].seen)
       /\ req' = [q \in Procs |->
                    IF q = p
                    THEN [req[p] EXCEPT !.pc = "mat",
                                        !.seen = NoMaterial,
                                        !.dset = IF hit THEN @ \cup {i} ELSE @]
                    ELSE IF hit /\ req[q].pc \notin {"idle", "closed"}
                    THEN [req[q] EXCEPT !.touched = @ \cup {o}]
                    ELSE req[q]]
    /\ UNCHANGED <<sites_collection, labour_collection, logs_collection,
                   issued, upd, rpt, resp, hist>>

\* for lab in log.labour (the materials loop is over):
\* worker = await find_one(ObjectId(labourId));
\* if worker: total_cost += ratePerDay * count
create_log_lab_find(p, lab) ==
    /\ ~Returning
    /\ req[p].pc \in {"mat", "lab"}
    /\ Len(req[p].log.labour) + 1 \in LabLens
    /\ LET r == [req[p] EXCEPT !.log.labour = Append(@, lab), !.pc = "lab"]
           parsed == ObjectId(lab.labourId)
           o == parsed.oid
       IN
       IF ~parsed.ok
       THEN Raise(p, r, "InvalidId")
       ELSE /\ UNCHANGED <<materials_collection, hist>>
            /\ IF Found(labour_collection, o)
               THEN req' = [req EXCEPT ![p] =
                              [r EXCEPT !.total_cost = @ + LabourCost(labour_collection[o], lab)]]
               ELSE req' = [req EXCEPT ![p] = r]
    /\ UNCHANGED <<sites_collection, labour_collection, logs_collection,
                   issued, upd, rpt, resp>>

\* both loops are over: log_dict["totalCost"] = total_cost;
\* result = await insert_one(log_dict); new_log = await find_one(inserted_id);
\* return log_helper(new_log).  No handler updates or deletes a log, so the
\* find_one reads what insert_one wrote whatever runs in between.
create_log_insert(p) ==
    /\ ~Returning
    /\ req[p].pc \in {"mat", "lab"}
    /\ Len(req[p].log.labour) \in LabLens
    /\ LET o == InsertedId("logs", issued["logs"])
           doc == [siteId |-> req[p].log.siteId, materials |-> req[p].log.materials,
                   labour |-> req[p].log.labour,
                   totalCost |-> req[p].total_cost]
       IN
       /\ logs_collection' = InsertOne(logs_collection, o, doc)
       /\ issued' = [issued EXCEPT !["logs"] = @ + 1]
       /\ req' = [req EXCEPT ![p].pc = "done", ![p].logId = o]
    /\ UNCHANGED <<sites_collection, materials_collection, labour_collection,
                   upd, rpt, resp, hist>>

\* the body create_log returns in state "done"
create_log_body(p) == log_helper(req[p].logId, logs_collection[req[p].logId])

\* the store is unreachable at one of create_log's awaits: the driver raises
create_log_store_error(p) ==
    /\ ~Returning
    /\ req[p].pc \in {"mat", "mat_inc", "lab"}
    /\ Raise(p, req[p], "Store")
    /\ UNCHANGED <<sites_collection, labour_collection, logs_collection,
                   issued, upd, rpt, resp>>

\* ------------------------------------------------------------ Reports
RECURSIVE SumTotalCost(_)
\* sum(log["totalCost"] for log in logs)
SumTotalCost(logs) ==
    IF logs = <<>> THEN 0 ELSE Head(logs).totalCost + SumTotalCost(Tail(logs))

\* a variant of FindLogs below that compares the ids the strings denote
RECURSIVE FindLogsByObjectId(_, _, _)
FindLogsByObjectId(coll, sid, n) ==
    IF n = 0 THEN <<>>
    ELSE FindLogsByObjectId(coll, sid, n - 1) \o
         (IF Oid("logs", n) \in DOMAIN coll
             /\ ObjectId(coll[Oid("logs", n)].siteId) = ObjectId(sid)
          THEN <<log_helper(Oid("logs", n), coll[Oid("logs", n)])>> ELSE <<>>)

\* logs_collection.find({"siteId": sid}), each through log_helper: the match
\* is string equality on the stored siteId
RECURSIVE FindLogs(_, _, _)
FindLogs(coll, sid, n) ==
    IF n = 0 THEN <<>>
    ELSE FindLogs(coll, sid, n - 1) \o
         (IF Oid("logs", n) \in DOMAIN coll /\ coll[Oid("logs", n)].siteId = sid
          THEN <<log_helper(Oid("logs", n), coll[Oid("logs", n)])>> ELSE <<>>)

\* GET /api/reports/sites: the outer cursor's first batch holds every site
get_site_report_begin ==
    /\ ~Returning
    /\ rpt.pc = "idle"
    /\ LET batch == Ordered(sites_collection, "sites", issued["sites"]) IN
       rpt' = [pc |-> IF batch = <<>> THEN "done" ELSE "logs",
               batch |-> [k \in 1..Len(batch) |->
                            site_helper(batch[k], sites_collection[batch[k]])],
               sites |-> <<>>]
    /\ UNCHANGED <<store, issued, req, upd, resp, hist>>

\* one round of the outer loop: the inner cursor reads the site's logs,
\* site_data gets "logs" and "totalCost" and is appended to sites
get_site_report_site ==
    /\ ~Returning
    /\ rpt.pc = "logs"
    /\ LET site_data == Head(rpt.batch)
           logs == FindLogs(logs_collection, site_data._id, issued["logs"])
           entry == [_id |-> site_data._id, fields |-> site_data.fields,
                     logs |-> logs, totalCost |-> SumTotalCost(logs),
                     asof |-> issued["logs"]]
       IN
       rpt' = [pc |-> IF Len(rpt.batch) = 1 THEN "done" ELSE "logs",
               batch |-> Tail(rpt.batch),
               sites |-> Append(rpt.sites, entry)]
    /\ UNCHANGED <<store, issued, req, upd, resp, hist>>

\* ------------------------------------------------------------ returning
\* the response leaves the server
return ==
    /\ Returning
    /\ resp' = NoResp
    /\ req' = [p \in Procs |-> IF req[p].pc \in {"done", "failed"}
                               THEN Request("closed") ELSE req[p]]
    /\ rpt' = IF rpt.pc = "done" THEN [pc |-> "idle"] ELSE rpt
    /\ UNCHANGED <<store, issued, upd, hist>>

\* ------------------------------------------------------------ system
Init ==
    /\ sites_collection = EmptyColl
    /\ materials_collection = EmptyColl
    /\ labour_collection = EmptyColl
    /\ logs_collection = EmptyColl
    /\ issued = NoIds
    /\ req = [p \in Procs |-> Request("idle")]
    /\ upd = Idle
    /\ rpt = Idle
    /\ resp = NoResp
    /\ hist = [mat0 |-> EmptyColl, failed |-> FALSE]

\* Who calls what.  Requests name ids freely (IdInputs) or only ids of
\* records the client can list (Listed); a request arrives while others are
\* in flight, or only when the server is quiet.
Listed(coll) == {Hex(o) : o \in DOMAIN coll}
InFlight(p) == req[p].pc \in {"mat", "mat_inc", "lab"}
Quiet == upd.pc = "idle" /\ rpt.pc = "idle" /\ \A p \in Procs : ~InFlight(p)

SiteArrivals(ids) ==
    \/ \E f \in FieldVals : create_site(f)
    \/ \E id \in ids, f \in FieldVals : update_site_write(id, f)
    \/ \E id \in ids : delete_site(id)

MaterialArrivals(ids) ==
    \/ \E q \in QtyVals, c \in CostVals : create_material(q, c)
    \/ \E id \in ids : delete_material(id)

LabourArrivals(ids) ==
    \/ \E r \in RateVals : create_labour(r)
    \/ \E id \in ids : delete_labour(id)

LogArrivals == \E p \in Procs, siteId \in SiteIdInputs : create_log_begin(p, siteId)

\* the steps of the create_log requests in flight; all: with every line
\* input, or with the fewer ones
LogSteps(all) ==
    \/ \E p \in Procs :
          \E mat \in (IF all THEN MatLineInputs(p) ELSE FewMatLineInputs(p)) :
              create_log_mat_find(p, mat)
    \/ \E p \in Procs : create_log_mat_inc(p)
    \/ \E p \in Procs :
          \E lab \in (IF all THEN LabLineInputs(p) ELSE FewLabLineInputs(p)) :
              create_log_lab_find(p, lab)
    \/ \E p \in Procs : create_log_insert(p)
    \/ \E p \in Procs : create_log_store_error(p)

\* every handler, for clients that send one request at a time
Next ==
    \/ Quiet /\ SiteArrivals(Listed(sites_collection) \cup {Hex(NoOid)})
    \/ Quiet /\ MaterialArrivals(Listed(materials_collection))
    \/ Quiet /\ LabourArrivals(Listed(labour_collection))
    \/ Quiet /\ LogArrivals
    \/ Quiet /\ get_site_report_begin
    \/ update_site_read
    \/ LogSteps(FALSE)
    \/ get_site_report_site
    \/ return

\* overlapping create_log requests against the materials handlers
NextRace ==
    \/ MaterialArrivals(Listed(materials_collection))
    \/ LogArrivals
    \/ LogSteps(TRUE)
    \/ return

\* the site, material and labour handlers called with any id, overlapping
NextCrud ==
    \/ SiteArrivals(IdInputs("sites"))
    \/ update_site_read
    \/ MaterialArrivals(IdInputs("materials"))
    \/ LabourArrivals(IdInputs("labour"))
    \/ return

\* the site report overlapping create_log requests and the site handlers
NextReport ==
    \/ SiteArrivals(Listed(sites_collection))
    \/ update_site_read
    \/ \E q \in QtyVals, c \in CostVals : create_material(q, c)
    \/ (\A p \in Procs : ~InFlight(p)) /\ LogArrivals
    \/ LogSteps(FALSE)
    \/ get_site_report_begin
    \/ get_site_report_site
    \/ return

Spec == Init /\ [][Next]_vars
RaceSpec == Init /\ [][NextRace]_vars
CrudSpec == Init /\ [][NextCrud]_vars
ReportSpec == Init /\ [][NextReport]_vars


\* ================================================================ claims
LineOid(mat) == ObjectId(mat.materialId).oid

\* the quantities of the lines of a sequence that name Material o
RECURSIVE LineSum(_, _)
LineSum(lines, o) ==
    IF lines = <<>> THEN 0
    ELSE (IF ObjectId(Head(lines).materialId).ok /\ LineOid(Head(lines)) = o
          THEN Head(lines).quantity ELSE 0) + LineSum(Tail(lines), o)

\* the same over every persisted log
RECURSIVE LoggedSum(_, _)
LoggedSum(o, n) ==
    IF n = 0 THEN 0
    ELSE LoggedSum(o, n - 1) +
         (IF Oid("logs", n) \in DOMAIN logs_collection
          THEN LineSum(logs_collection[Oid("logs", n)].materials, o) ELSE 0)

Names(log, o) == LineSum(log.materials, o) # 0
Settled == ~hist.failed /\ \A p \in Procs : ~InFlight(p) /\ req[p].pc # "failed"

\* what the lines cost against the records stored when the request arrived
RECURSIVE MaterialsCost(_, _)
MaterialsCost(lines, coll) ==
    IF lines = <<>> THEN 0
    ELSE (IF ObjectId(Head(lines).materialId).ok /\ LineOid(Head(lines)) \in DOMAIN coll
          THEN coll[LineOid(Head(lines))].costPerUnit * Head(lines).quantity ELSE 0)
         + MaterialsCost(Tail(lines), coll)
RECURSIVE LaboursCost(_, _)
LaboursCost(lines, coll) ==
    IF lines = <<>> THEN 0
    ELSE (IF ObjectId(Head(lines).labourId).ok
             /\ ObjectId(Head(lines).labourId).oid \in DOMAIN coll
          THEN coll[ObjectId(Head(lines).labourId).oid].ratePerDay * Head(lines).count ELSE 0)
         + LaboursCost(Tail(lines), coll)
ExpectedCost(r) == MaterialsCost(r.log.materials, r.start) + LaboursCost(r.log.labour, r.startLab)

\* C1, the cost half alone: a create_log request that returns a log returns
\* and persists totalCost = sum of costPerUnit * quantity over the material
\* lines that resolve + sum of ratePerDay * count over the labour lines that
\* resolve (requests one at a time).
CostOfReturnedLog ==
    \A p \in Procs : req[p].pc = "done" =>
        /\ logs_collection[req[p].logId].totalCost = ExpectedCost(req[p])
        /\ create_log_body(p).totalCost = ExpectedCost(req[p])
        /\ create_log_body(p).materials = req[p].log.materials

\* C1: every create_log submission, whatever its lines, returns without
\* error with totalCost = the resolved material lines' costPerUnit * quantity
\* plus the resolved labour lines' ratePerDay * count; a line whose id does
\* not resolve adds 0 (the store staying reachable).
C1_TotalCostAndNoError ==
    /\ CostOfReturnedLog
    /\ \A p \in Procs : req[p].pc = "failed" => req[p].err = "Store"

\* C2 as written: after a submission holding a line (m.id, n) with n <= q,
\* q being m's quantity when it arrived, m.quantity = q - n (read for a
\* Material that is still stored and that no other submission decremented
\* meanwhile).
C2_LineLeavesQMinusN ==
    \A p \in Procs : req[p].pc = "done" =>
        \A i \in 1..Len(req[p].log.materials) :
            LET mat == req[p].log.materials[i]
                o == LineOid(mat)
            IN (/\ o \in (DOMAIN req[p].start \cap DOMAIN materials_collection) \ req[p].touched
                /\ mat.quantity <= req[p].start[o].quantity)
               => materials_collection[o].quantity = req[p].start[o].quantity - mat.quantity

\* C2 amended: when a submission returns, every Material m that was stored
\* with quantity q when it arrived, is still stored, and was decremented by
\* no other submission meanwhile has quantity q - (the sum of the quantities
\* of all the submission's lines naming m): q - n if (m.id, n) is the only one.
C2_LinesLeaveQMinusSum ==
    \A p \in Procs : req[p].pc = "done" =>
        \A o \in (DOMAIN req[p].start \cap DOMAIN materials_collection) \ req[p].touched :
            materials_collection[o].quantity
                = req[p].start[o].quantity - LineSum(req[p].log.materials, o)

C2_Witness ==
    \E p \in Procs :
        /\ req[p].pc = "done"
        /\ Len(req[p].log.materials) = 1
        /\ LET mat == req[p].log.materials[1]
               o == LineOid(mat)
           IN /\ o \in DOMAIN req[p].start /\ o \in DOMAIN materials_collection
              /\ mat.quantity <= req[p].start[o].quantity
              /\ materials_collection[o].quantity = req[p].start[o].quantity - mat.quantity

\* two logs are persisted, both with lines naming Material o
TwoLogsName(o) ==
    /\ DOMAIN logs_collection = {Oid("logs", 1), Oid("logs", 2)}
    /\ Names(logs_collection[Oid("logs", 1)], o)
    /\ Names(logs_collection[Oid("logs", 2)], o)
AfterTwo(o) ==
    hist.mat0[o].quantity - LineSum(logs_collection[Oid("logs", 1)].materials, o)
                          - LineSum(logs_collection[Oid("logs", 2)].materials, o)

\* two submissions overlapped on Material o and both completed: p returns
\* its log after another submission decremented o while p was in flight
Raced(p, o) ==
    /\ req[p].pc = "done" /\ o \in req[p].touched
    /\ Settled /\ TwoLogsName(o)

\* C3 as written: two overlapping submissions with lines n1 and n2 on the
\* same Material both complete and leave a quantity other than q - n1 - n2.
\* The claim says some interleaving does this; C3_NoLostUpdate shows that
\* none does, and this formula reads it on each completed overlap.
C3_RaceLosesUpdate ==
    \A o \in DOMAIN materials_collection, p \in Procs :
        Raced(p, o) => materials_collection[o].quantity # AfterTwo(o)

\* C3 amended: two overlapping submissions naming the same Material never
\* lose an update: whenever both have completed (nothing else in flight or
\* failed) and the Material is still stored, its quantity is q - n1 - n2.
C3_NoLostUpdate ==
    \A o \in DOMAIN materials_collection :
        Settled /\ TwoLogsName(o) => materials_collection[o].quantity = AfterTwo(o)

C3_Witness == \E o \in DOMAIN materials_collection, p \in Procs : Raced(p, o)

\* C4: update_site with a well-formed id answers NotFound exactly when the
\* id matches no stored Site: for the id of a stored Site and any fields,
\* also fields equal to its current ones, it returns the Site with those
\* fields; otherwise it answers NotFound and leaves the store as it was.
C4_UpdateNotFoundIffUnmatched ==
    [][/\ \A id \in IdInputs("sites") \ {BadStr}, f \in FieldVals :
            update_site_write(id, f) =>
                IF Found(sites_collection, ObjectId(id).oid)
                THEN resp'.status # 404
                ELSE resp' = Response(404, "Site not found") /\ UNCHANGED store
       /\ update_site_read => resp' = Response(200, upd.fields)]_vars

\* C5: a delete of a Site, Material or Labour by an id matching no stored
\* record answers NotFound and changes no collection; by an id matching a
\* record it removes that record alone and confirms.
DeleteContract(id, coll, collAfter) ==
    IF ObjectId(id).ok /\ Found(coll, ObjectId(id).oid)
    THEN resp'.status = 200 /\ collAfter = DeleteOne(coll, ObjectId(id).oid)
    ELSE resp'.status = 404 /\ collAfter = coll
C5_DeleteNotFoundIffUnmatched ==
    [][/\ \A id \in IdInputs("sites") : delete_site(id) =>
            /\ DeleteContract(id, sites_collection, sites_collection')
            /\ UNCHANGED <<materials_collection, labour_collection, logs_collection>>
       /\ \A id \in IdInputs("materials") : delete_material(id) =>
            /\ DeleteContract(id, materials_collection, materials_collection')
            /\ UNCHANGED <<sites_collection, labour_collection, logs_collection>>
       /\ \A id \in IdInputs("labour") : delete_labour(id) =>
            /\ DeleteContract(id, labour_collection, labour_collection')
            /\ UNCHANGED <<sites_collection, materials_collection, logs_collection>>]_vars

\* C6: a persisted DailyLog is never altered or removed: every step of every
\* handler leaves each log that exists, totalCost included, as it is.
C6_LogsFrozen ==
    [][\A o \in DOMAIN logs_collection :
          o \in DOMAIN logs_collection' /\ logs_collection'[o] = logs_collection[o]]_vars

\* a log with a cost whose Material and Site have since been deleted, and a
\* later log beside it
C6_Witness ==
    /\ Oid("logs", 2) \in DOMAIN logs_collection
    /\ logs_collection[Oid("logs", 1)].totalCost > 0
    /\ logs_collection[Oid("logs", 1)].siteId \in {Hex(o) : o \in Issued("sites")}
    /\ sites_collection = EmptyColl /\ issued["sites"] > 0
    /\ materials_collection = EmptyColl /\ issued["materials"] > 0

\* the logs an entry of the report should list: those persisted when the
\* entry's query ran whose siteId is the entry's id
LogsOf(e) ==
    {o \in DOMAIN logs_collection : o[2] <= e.asof /\ logs_collection[o].siteId = e._id}
RECURSIVE SumOver(_)
SumOver(S) ==
    IF S = {} THEN 0
    ELSE LET o == CHOOSE x \in S : TRUE
         IN logs_collection[o].totalCost + SumOver(S \ {o})
ReportEntriesRight ==
    rpt.pc # "idle" => \A k \in 1..Len(rpt.sites) :
        LET e == rpt.sites[k] IN
        /\ {e.logs[i] : i \in 1..Len(e.logs)}
              = {log_helper(o, logs_collection[o]) : o \in LogsOf(e)}
        /\ Len(e.logs) = Cardinality(LogsOf(e))
        /\ e.totalCost = SumOver(LogsOf(e))
        /\ e._id \in {str(o) : o \in Issued("sites")}

C8_NoCompensation ==
    [][/\ \A p \in Procs :
            (req[p].pc # "failed" /\ req'[p].pc = "failed")
            => UNCHANGED <<materials_collection, logs_collection>>
       /\ \A o \in DOMAIN materials_collection \cap DOMAIN materials_collection' :
            materials_collection'[o].quantity # materials_collection[o].quantity
            => \E p \in Procs :
                  /\ req[p].pc = "mat_inc"
                  /\ req'[p].pc = "mat"
                  /\ LET mat == req[p].log.materials[Len(req[p].log.materials)] IN
                     /\ LineOid(mat) = o
                     /\ materials_collection'[o].quantity
                           = materials_collection[o].quantity - mat.quantity]_vars

\* a request has raised after a decrement, and no log exists
C8_Witness ==
    \E p \in Procs, o \in DOMAIN materials_collection :
        /\ req[p].pc = "failed" /\ req[p].dset # {}
        /\ req[p].logId = NoOid /\ logs_collection = EmptyColl
        /\ AppliedBy(req[p], o, Len(req[p].log.materials)) > 0
        /\ materials_collection[o].quantity
              = hist.mat0[o].quantity - AppliedBy(req[p], o, Len(req[p].log.materials))

\* C9: in every returned create_log, under every interleaving with
\* delete_material, the material lines that added cost are exactly the
\* lines whose decrement reached a stored Material.
C9_CostIffDecrement ==
    \A p \in Procs : req[p].pc = "done" => req[p].cset = req[p].dset

\* C10: with no submission in progress and none failed, every stored
\* Material has quantity q0 - (the sum of the quantities of all lines naming
\* it over all persisted logs, repeated lines counted each); the quantity
\* may be negative, no submission is refused for lack of stock.
C10_InventoryConservation ==
    Settled =>
        \A o \in DOMAIN materials_collection :
            materials_collection[o].quantity
                = hist.mat0[o].quantity - LoggedSum(o, issued["logs"])

\* a negative quantity after a log with two lines naming the Material
C10_Witness ==
    /\ Settled
    /\ \E o \in DOMAIN materials_collection, l \in DOMAIN logs_collection :
          /\ materials_collection[o].quantity < 0
          /\ Len(logs_collection[l].materials) = 2
          /\ \A i \in 1..2 : LineOid(logs_collection[l].materials[i]) = o

====
